---- MODULE Spec2Model ----
(***************************************************************************)
(* Model of main.go: the Markdown-with-frontmatter <-> Qiita item          *)
(* conversion (ParseMarkdown, ToMarkdown, ParseTagging, Tagging.String,    *)
(* Tagging.MarshalJSON) and the top-level flow of main (read file, parse,  *)
(* PostNewItem, ToMarkdown, println).                                      *)
(*                                                                         *)
(* A Go string is a sequence of one-character strings.  A Go slice is a    *)
(* record [nil, elems], so that a nil slice and an empty non-nil slice     *)
(* are different values, as they are for `!= nil` and for encoding/json.   *)
(***************************************************************************)
EXTENDS Integers, Sequences, FiniteSets, TLC

VARIABLES
    pc,       \* position in main / in the sequence of function applications
    dryRun,   \* the package variable dryRun
    src,      \* how the input document was written (title, tags, private, body)
    fs,       \* the file system: what ioutil.ReadFile("_posts/sample.md") gives
    buf,      \* main's buf
    it,       \* outcome of ParseMarkdown(string(buf))
    net,      \* what the network and the remote service do with a request
    netCalls, \* number of client.Do calls made
    req,      \* the last *http.Request built by PostNewItem
    post,     \* the results of PostNewItem(*it): (r, err)
    st,       \* outcome of ToMarkdown: (st, err)
    it2,      \* outcome of ParseMarkdown on the rendered text
    stderr,   \* lines written by the builtin println
    stdout,   \* lines written by fmt.Println (the dry-run request dump)
    stages,   \* the statements of main executed so far, with their outcome
    t,        \* a Tagging handed to the tag codec
    enc,      \* t.String()
    dec,      \* ParseTagging(enc)
    wire      \* t.MarshalJSON()

vars == <<pc, dryRun, src, fs, buf, it, net, netCalls, req, post, st, it2,
          stderr, stdout, stages, t, enc, dec, wire>>

flowVars == <<dryRun, src, fs, buf, it, net, netCalls, req, post, st, it2,
              stderr, stdout, stages>>

codecVars == <<t, enc, dec, wire>>

----------------------------------------------------------------------------
(* Bounds of the model *)

\* longest tag name handed to the tag codec
MaxLen == 2
\* longest version string handed to the tag codec
MaxVerLen == 1
\* most versions of a Tagging handed to the tag codec
MaxVersions == 2
\* most space-separated tokens written in a document's tags field
MaxTags == 3
\* longest body of a document
MaxBodyLen == 1

----------------------------------------------------------------------------
(* Go strings and slices *)

Min(S) == CHOOSE m \in S : \A n \in S : m <= n

RECURSIVE Concat(_)
Concat(ss) == IF ss = <<>> THEN <<>> ELSE Head(ss) \o Concat(Tail(ss))

\* all strings over the characters cs of length at most n
RECURSIVE StringsUpTo(_, _)
StringsUpTo(cs, n) ==
    IF n = 0 THEN {<<>>}
    ELSE LET shorter == StringsUpTo(cs, n - 1)
         IN  shorter \cup {Append(s, c) : s \in shorter, c \in cs}

NilSlice == [nil |-> TRUE, elems |-> <<>>]

Slice(es) == [nil |-> FALSE, elems |-> es]

\* append(s, e): a nil slice becomes non-nil
GoAppend(s, e) == Slice(Append(s.elems, e))

\* strings.Index, 1-based; 0 when sep does not occur in s
Index(s, sep) ==
    LET at == {i \in 1..(Len(s) - Len(sep) + 1) :
                  SubSeq(s, i, i + Len(sep) - 1) = sep}
    IN  IF at = {} THEN 0 ELSE Min(at)

\* strings.SplitN for a non-empty sep: at most n substrings, the last one the
\* unsplit remainder; n < 0 means all substrings
RECURSIVE SplitN(_, _, _)
SplitN(s, sep, n) ==
    IF n = 0 THEN <<>>
    ELSE LET i == Index(s, sep)
         IN  IF n = 1 \/ i = 0 THEN <<s>>
             ELSE <<SubSeq(s, 1, i - 1)>>
                  \o SplitN(SubSeq(s, i + Len(sep), Len(s)), sep, n - 1)

Split(s, sep) == SplitN(s, sep, -1)

RECURSIVE Join(_, _)
Join(ss, sep) ==
    IF ss = <<>> THEN <<>>
    ELSE IF Len(ss) = 1 THEN ss[1]
    ELSE ss[1] \o sep \o Join(Tail(ss), sep)

----------------------------------------------------------------------------
(* encoding/json on strings *)

\* the encoding of one character inside a JSON string literal (json.Marshal
\* escapes the quote, the backslash, the newline and, with escapeHTML on,
\* the characters <, > and &)
JSONChar(c) ==
    CASE c = "\"" -> <<"\\", "\"">>
      [] c = "\\" -> <<"\\", "\\">>
      [] c = "\n" -> <<"\\", "n">>
      [] c = "<"  -> <<"\\", "u", "0", "0", "3", "c">>
      [] c = ">"  -> <<"\\", "u", "0", "0", "3", "e">>
      [] c = "&"  -> <<"\\", "u", "0", "0", "2", "6">>
      [] OTHER    -> <<c>>

JSONString(s) == <<"\"">> \o Concat([i \in 1..Len(s) |-> JSONChar(s[i])]) \o <<"\"">>

\* json.Marshal of a non-nil []string
JSONStrings(ss) ==
    <<"[">> \o Join([i \in 1..Len(ss) |-> JSONString(ss[i])], <<",">>) \o <<"]">>

----------------------------------------------------------------------------
(* The tag codec *)

Tagging(name, versions) == [Name |-> name, Versions |-> versions]

\* func (t Tagging) String() string
String(tg) ==
    IF Len(tg.Versions.elems) > 0
    THEN tg.Name \o <<":">> \o Join(tg.Versions.elems, <<",">>)
    ELSE tg.Name

\* a decoder that splits at every ':' instead of at the first one only
ParseTagging_SplitAll(s) ==
    LET seps == Split(s, <<":">>)
    IN  Tagging(seps[1],
                IF Len(seps) = 2 THEN Slice(Split(seps[2], <<",">>)) ELSE NilSlice)

\* func ParseTagging(src string) *Tagging
ParseTagging(s) ==
    LET seps == SplitN(s, <<":">>, 2)
    IN  Tagging(seps[1],
                IF Len(seps) = 2 THEN Slice(Split(seps[2], <<",">>)) ELSE NilSlice)

KeyName == <<"{", "\"", "n", "a", "m", "e", "\"", ":", "\"">>

KeyTags == <<"\"", "t", "a", "g", "s", "\"", ":">>

KeyVersions == <<"\"", "v", "e", "r", "s", "i", "o", "n", "s", "\"", ":">>

\* a MarshalJSON that omits the version list whenever it is empty
MarshalJSON_LenTest(tg) ==
    KeyName \o tg.Name \o <<"\"">>
    \o (IF Len(tg.Versions.elems) > 0
        THEN <<",", " ">> \o KeyTags \o JSONStrings(tg.Versions.elems)
        ELSE <<>>)
    \o <<"}">>

\* func (t Tagging) MarshalJSON() ([]byte, error); json.Marshal of a []string
\* cannot fail, so the error is always nil and only the bytes are modelled
MarshalJSON(tg) ==
    KeyName \o tg.Name \o <<"\"">>
    \o (IF ~tg.Versions.nil
        THEN <<",", " ">> \o KeyTags \o JSONStrings(tg.Versions.elems)
        ELSE <<>>)
    \o <<"}">>

----------------------------------------------------------------------------
(* Items *)

Item(title, body, private, tags) ==
    [ID |-> <<>>, Title |-> title, Body |-> body, RenderedBody |-> <<>>,
     Private |-> private, Tags |-> tags, CreatedAt |-> 0, UpdatedAt |-> 0]

\* var res Item
ZeroItem == Item(<<>>, <<>>, FALSE, NilSlice)

\* the fields a Markdown document carries
Local(item) == <<item.Title, item.Body, item.Private, item.Tags>>

----------------------------------------------------------------------------
(* ToMarkdown: html/template on the fixed template text *)

\* html/template's escaper for an action in HTML text context
HTMLChar(c) ==
    CASE c = "<"  -> <<"&", "l", "t", ";">>
      [] c = ">"  -> <<"&", "g", "t", ";">>
      [] c = "&"  -> <<"&", "a", "m", "p", ";">>
      [] c = "\"" -> <<"&", "#", "3", "4", ";">>
      [] c = "'"  -> <<"&", "#", "3", "9", ";">>
      [] c = "+"  -> <<"&", "#", "4", "3", ";">>
      [] OTHER    -> <<c>>

HTMLEscape(s) == Concat([i \in 1..Len(s) |-> HTMLChar(s[i])])

\* how the template prints a string-valued action: {{ .Title }}, {{ . }}, {{ .Body }}
Action(s) == HTMLEscape(s)

Delim == <<"-", "-", "-", "\n">>

TitleKey == <<"t", "i", "t", "l", "e">>

TagsKey == <<"t", "a", "g", "s">>

PrivateKey == <<"p", "r", "i", "v", "a", "t", "e">>

TrueText == <<"t", "r", "u", "e">>

FalseText == <<"f", "a", "l", "s", "e">>

\* the text of the template up to the body, executed on item
FrontMatter(item) ==
    Delim
    \o TitleKey \o <<":", " ">> \o Action(item.Title) \o <<"\n">>
    \o TagsKey \o <<":">>
    \o Concat([i \in 1..Len(item.Tags.elems) |->
                  <<" ">> \o Action(String(item.Tags.elems[i]))])
    \o <<"\n">>
    \o PrivateKey \o <<":", " ">>
    \o (IF item.Private THEN TrueText ELSE FalseText) \o <<"\n">>
    \o Delim

\* func (item *Item) ToMarkdown() (string, error); the template text is a
\* constant that parses, and writing to a bytes.Buffer cannot fail
ToMarkdown(item) ==
    [err |-> FALSE, text |-> FrontMatter(item) \o Action(item.Body)]

----------------------------------------------------------------------------
(* yaml.Unmarshal into map[string]interface{}, for the frontmatter blocks   *)
(* of this model: one "key: value" line per key, the value a plain scalar.  *)
(* The documents hold no quotes, brackets, braces, '#', '-', '|', '>', '*', *)
(* '!', '%', '@' or '`' in a value, so the rules for those are left out.    *)

AlphaNum ==
    {"a", "b", "c", "d", "e", "f", "g", "h", "i", "j", "k", "l", "m", "n",
     "o", "p", "q", "r", "s", "t", "u", "v", "w", "x", "y", "z",
     "0", "1", "2", "3", "4", "5", "6", "7", "8", "9"}

Digits == {"0", "1", "2", "3", "4", "5", "6", "7", "8", "9"}

RECURSIVE TrimLeft(_)
TrimLeft(s) == IF s # <<>> /\ Head(s) = " " THEN TrimLeft(Tail(s)) ELSE s

RECURSIVE TrimRight(_)
TrimRight(s) ==
    IF s # <<>> /\ s[Len(s)] = " " THEN TrimRight(SubSeq(s, 1, Len(s) - 1)) ELSE s

TrimSpace(s) == TrimLeft(TrimRight(s))

\* position of the first ':' that is followed by a blank or ends the text
\* (the mapping-value indicator); 0 when there is none
ValueIndicator(s) ==
    LET at == {i \in 1..Len(s) :
                  s[i] = ":" /\ (i = Len(s) \/ s[i + 1] = " ")}
    IN  IF at = {} THEN 0 ELSE Min(at)

YAMLNull == [kind |-> "null", s |-> <<>>, b |-> FALSE]

YAMLBool(b) == [kind |-> "bool", s |-> <<>>, b |-> b]

YAMLInt(s) == [kind |-> "int", s |-> s, b |-> FALSE]

YAMLStr(s) == [kind |-> "str", s |-> s, b |-> FALSE]

YAMLInvalid == [kind |-> "invalid", s |-> <<>>, b |-> FALSE]

YAMLTrue ==
    {<<"t", "r", "u", "e">>, <<"y">>, <<"y", "e", "s">>, <<"o", "n">>}

YAMLFalse ==
    {<<"f", "a", "l", "s", "e">>, <<"n">>, <<"n", "o">>, <<"o", "f", "f">>}

\* resolve() on a plain scalar: null, bool and int are recognised by their
\* text, everything else is a string
Resolve(v) ==
    IF v = <<>> \/ v = <<"~">> \/ v = <<"n", "u", "l", "l">> THEN YAMLNull
    ELSE IF v \in YAMLTrue THEN YAMLBool(TRUE)
    ELSE IF v \in YAMLFalse THEN YAMLBool(FALSE)
    ELSE IF \A i \in 1..Len(v) : v[i] \in Digits THEN YAMLInt(v)
    ELSE YAMLStr(v)

\* the node after "key:": blanks around it are dropped; a further mapping
\* value indicator or a leading ',' is a syntax error; a leading '&' starts
\* an anchor, whose name is alphanumeric and must be followed by a blank
RECURSIVE Scalar(_)
Scalar(text) ==
    LET v == TrimSpace(text)
    IN  IF v = <<>> THEN YAMLNull
        ELSE IF ValueIndicator(v) # 0 THEN YAMLInvalid
        ELSE IF Head(v) = "," THEN YAMLInvalid
        ELSE IF Head(v) = "&"
             THEN LET ends == {i \in 2..Len(v) : v[i] \notin AlphaNum}
                      e    == IF ends = {} THEN Len(v) + 1 ELSE Min(ends)
                  IN  IF e = 2 \/ (e <= Len(v) /\ v[e] # " ") THEN YAMLInvalid
                      ELSE Scalar(SubSeq(v, e, Len(v)))
        ELSE Resolve(v)

\* one line of the block: [ok, key, val]
Entry(line) ==
    LET i == ValueIndicator(line)
    IN  IF i <= 1 THEN [ok |-> FALSE, key |-> <<>>, val |-> YAMLInvalid]
        ELSE LET val == Scalar(SubSeq(line, i + 1, Len(line)))
             IN  [ok  |-> val.kind # "invalid",
                  key |-> SubSeq(line, 1, i - 1),
                  val |-> val]

\* yaml.Unmarshal([]byte(text), &meta) with the error dropped, as the caller
\* drops it: a syntax error anywhere in the block leaves meta nil (the whole
\* block is parsed before anything is stored), and so does an empty block.
\* The result is the map as a function from its keys; a key written twice
\* keeps its last value.
YAMLUnmarshal(text) ==
    LET lines   == SelectSeq(Split(text, <<"\n">>), LAMBDA l : l # <<>>)
        entries == [i \in 1..Len(lines) |-> Entry(lines[i])]
        keys    == {entries[i].key : i \in 1..Len(entries)}
        last(k) == CHOOSE i \in 1..Len(entries) :
                       /\ entries[i].key = k
                       /\ \A j \in 1..Len(entries) : entries[j].key = k => j <= i
    IN  IF \E i \in 1..Len(entries) : ~entries[i].ok THEN <<>>
        ELSE [k \in keys |-> entries[last(k)].val]

----------------------------------------------------------------------------
(* ParseMarkdown *)

Panic(msg) == [panic |-> msg, item |-> ZeroItem]

Parsed(item) == [panic |-> "", item |-> item]

\* the loop of lines 118-120: one ParseTagging per element of the split
RECURSIVE AppendTags(_, _)
AppendTags(tags, toks) ==
    IF toks = <<>> THEN tags
    ELSE AppendTags(GoAppend(tags, ParseTagging(Head(toks))), Tail(toks))

\* strings.Split(meta["tags"].(string), " ")
TagTokens(s) == Split(s, <<" ">>)

\* a default of false for the private flag
DefaultPrivate_False == FALSE

\* res.Private = true
DefaultPrivate == TRUE

\* func ParseMarkdown(src string) *Item; a failed index or type assertion
\* panics, the function has no error result
ParseMarkdown(text) ==
    LET sections == SplitN(text, Delim, 3)
    IN  IF Len(sections) < 2 THEN Panic("index out of range [1]")
        ELSE LET meta == YAMLUnmarshal(sections[2])
                 has(k) == k \in DOMAIN meta
             IN  IF Len(sections) < 3 THEN Panic("index out of range [2]")
                 ELSE IF ~has(TitleKey) \/ meta[TitleKey].kind # "str"
                      THEN Panic("interface conversion: title is not string")
                 ELSE IF has(PrivateKey) /\ meta[PrivateKey].kind # "bool"
                      THEN Panic("interface conversion: private is not bool")
                 ELSE IF has(TagsKey) /\ meta[TagsKey].kind \notin {"null", "str"}
                      THEN Panic("interface conversion: tags is not string")
                 ELSE Parsed(Item(
                          meta[TitleKey].s,
                          sections[3],
                          IF has(PrivateKey) THEN meta[PrivateKey].b
                                             ELSE DefaultPrivate,
                          IF has(TagsKey) /\ meta[TagsKey].kind # "null"
                          THEN AppendTags(NilSlice, TagTokens(meta[TagsKey].s))
                          ELSE NilSlice))

----------------------------------------------------------------------------
(* PostNewItem and DoRequest *)

\* json.Marshal runs a Marshaler's output through compact: blanks outside
\* string literals are dropped and <, >, & inside them are escaped
RECURSIVE Compact(_, _, _)
Compact(b, i, inString) ==
    IF i > Len(b) THEN <<>>
    ELSE IF inString
    THEN IF b[i] = "\\" /\ i < Len(b)
         THEN <<b[i], b[i + 1]>> \o Compact(b, i + 2, TRUE)
         ELSE IF b[i] = "\""
         THEN <<b[i]>> \o Compact(b, i + 1, FALSE)
         ELSE (IF b[i] \in {"<", ">", "&"} THEN JSONChar(b[i]) ELSE <<b[i]>>)
              \o Compact(b, i + 1, TRUE)
    ELSE IF b[i] \in {" ", "\n", "\t"}
    THEN Compact(b, i + 1, FALSE)
    ELSE <<b[i]>> \o Compact(b, i + 1, b[i] = "\"")

\* compact rejects output that is not valid JSON.  MarshalJSON puts the name
\* between quotes as it is, so the output is valid when the name holds no
\* quote, backslash or control character (a name that closes the literal and
\* goes on with well-formed members is longer than any name of this model)
ValidJSON(tg) ==
    \A i \in 1..Len(tg.Name) : tg.Name[i] \notin {"\"", "\\", "\n", "\t"}

\* json.Marshal of item.Tags ([]Tagging): null for a nil slice
TagsJSON(tags) ==
    IF tags.nil THEN <<"n", "u", "l", "l">>
    ELSE <<"[">>
         \o Join([i \in 1..Len(tags.elems) |->
                     Compact(MarshalJSON(tags.elems[i]), 1, FALSE)], <<",">>)
         \o <<"]">>

\* json.Marshal(postdata): the keys of a map are written in sorted order
Payload(item) ==
    <<"{", "\"", "b", "o", "d", "y", "\"", ":">> \o JSONString(item.Body)
    \o <<",", "\"", "p", "r", "i", "v", "a", "t", "e", "\"", ":">>
    \o (IF item.Private THEN TrueText ELSE FalseText)
    \o <<",">> \o KeyTags \o TagsJSON(item.Tags)
    \o <<",", "\"", "t", "i", "t", "l", "e", "\"", ":">> \o JSONString(item.Title)
    \o <<"}">>

\* os.Getenv("QIITA_API_TOKEN")
QIITA_API_TOKEN == "token"

NoRequest ==
    [Method |-> "", URL |-> "", ContentType |-> "", Authorization |-> <<>>,
     Body |-> <<>>]

\* http.NewRequest("POST", "https://qiita.com/api/v2/items", ...) with the
\* Content-Type header set
NewPostRequest(body) ==
    [Method |-> "POST", URL |-> "https://qiita.com/api/v2/items",
     ContentType |-> "application/json", Authorization |-> <<>>,
     Body |-> body]

\* a response body: no bytes at all, bytes that are not JSON, a JSON array,
\* or a JSON object with some of the keys of an item
Bytes(kind, keys, val) == [kind |-> kind, keys |-> keys, val |-> val]

NoBytes == Bytes("empty", {}, ZeroItem)

ItemKeys ==
    {"id", "title", "body", "rendered_body", "private", "tags", "created_at",
     "updated_at"}

\* what the network and the service did: whether client.Do succeeded, the
\* status of the response, whether its body could be read, and the body
NetOutcome(transport, status, read, body) ==
    [transport |-> transport, status |-> status, read |-> read, body |-> body]

NoNet == NetOutcome(FALSE, 0, FALSE, NoBytes)

Result(bytes, err, sent, dump) ==
    [bytes |-> bytes, err |-> err, sent |-> sent, dump |-> dump]

\* a DoRequest that treats a status of 400 and above as an error
DoRequest_CheckStatus(r, dry, n) ==
    LET r2 == [r EXCEPT !.Authorization = <<"Bearer ", QIITA_API_TOKEN>>]
    IN  IF dry THEN Result(NoBytes, "", FALSE, <<r2>>)
        ELSE IF ~n.transport
             THEN Result(NoBytes, "failed to do request", TRUE, <<>>)
        ELSE IF n.status >= 400
             THEN Result(NoBytes, "bad status", TRUE, <<>>)
        ELSE IF ~n.read
             THEN Result(NoBytes, "failed to read response body", TRUE, <<>>)
        ELSE Result(n.body, "", TRUE, <<>>)

\* func DoRequest(req *http.Request) ([]byte, error), with what it does
\* besides: sent says whether client.Do was called, dump is what was printed
DoRequest(r, dry, n) ==
    LET r2 == [r EXCEPT !.Authorization = <<"Bearer ", QIITA_API_TOKEN>>]
    IN  IF dry THEN Result(NoBytes, "", FALSE, <<r2>>)
        ELSE IF ~n.transport
             THEN Result(NoBytes, "failed to do request", TRUE, <<>>)
        ELSE IF ~n.read
             THEN Result(NoBytes, "failed to read response body", TRUE, <<>>)
        ELSE Result(n.body, "", TRUE, <<>>)

\* json.Unmarshal(bytes, &res) for res of type Item: a key that is missing
\* leaves the zero value, keys that Item does not have are ignored
Unmarshal(bytes) ==
    CASE bytes.kind = "empty" ->
             [err |-> "unexpected end of JSON input", item |-> ZeroItem]
      [] bytes.kind = "garbage" ->
             [err |-> "invalid character", item |-> ZeroItem]
      [] bytes.kind = "array" ->
             [err |-> "cannot unmarshal array into Go value of type main.Item",
              item |-> ZeroItem]
      [] bytes.kind = "object" ->
             [err  |-> "",
              item |->
                [ID           |-> IF "id" \in bytes.keys
                                  THEN bytes.val.ID ELSE <<>>,
                 Title        |-> IF "title" \in bytes.keys
                                  THEN bytes.val.Title ELSE <<>>,
                 Body         |-> IF "body" \in bytes.keys
                                  THEN bytes.val.Body ELSE <<>>,
                 RenderedBody |-> IF "rendered_body" \in bytes.keys
                                  THEN bytes.val.RenderedBody ELSE <<>>,
                 Private      |-> IF "private" \in bytes.keys
                                  THEN bytes.val.Private ELSE FALSE,
                 Tags         |-> IF "tags" \in bytes.keys
                                  THEN bytes.val.Tags ELSE NilSlice,
                 CreatedAt    |-> IF "created_at" \in bytes.keys
                                  THEN bytes.val.CreatedAt ELSE 0,
                 UpdatedAt    |-> IF "updated_at" \in bytes.keys
                                  THEN bytes.val.UpdatedAt ELSE 0]]

Posted(item, err, r, sent, dump) ==
    [item |-> item, err |-> err, req |-> r, sent |-> sent, dump |-> dump]

\* func PostNewItem(item Item) (*Item, error), with the request it built,
\* whether the request was sent, and what was printed
PostNewItem(item, dry, n) ==
    IF \E i \in 1..Len(item.Tags.elems) : ~ValidJSON(item.Tags.elems[i])
    THEN Posted(ZeroItem, "json: error calling MarshalJSON", NoRequest, FALSE, <<>>)
    ELSE LET r   == NewPostRequest(Payload(item))
             res == DoRequest(r, dry, n)
             r2  == [r EXCEPT !.Authorization = <<"Bearer ", QIITA_API_TOKEN>>]
         IN  IF res.err # ""
             THEN Posted(ZeroItem, "failed to DoRequest", r2, res.sent, res.dump)
             ELSE LET u == Unmarshal(res.bytes)
                  IN  IF u.err # ""
                      THEN Posted(ZeroItem, "failed to unmarshal", r2,
                                  res.sent, res.dump)
                      ELSE Posted(u.item, "", r2, res.sent, res.dump)

----------------------------------------------------------------------------
(* Input documents *)

Field(present, text) == [present |-> present, text |-> text]

Source(form, title, tags, private, body) ==
    [form |-> form, title |-> title, tags |-> tags, private |-> private,
     body |-> body]

\* the text written after "tags:": the tokens joined by single blanks
TagsText(tokens) == Join(tokens, <<" ">>)

Line(key, text) ==
    key \o <<":">> \o (IF text = <<>> THEN <<>> ELSE <<" ">> \o text) \o <<"\n">>

Block(s) ==
    (IF s.title.present THEN Line(TitleKey, s.title.text) ELSE <<>>)
    \o (IF s.tags.present THEN Line(TagsKey, TagsText(s.tags.text)) ELSE <<>>)
    \o (IF s.private.present THEN Line(PrivateKey, s.private.text) ELSE <<>>)

\* the text of the file: both delimiter lines, the closing one missing, or
\* none at all
Document(s) ==
    CASE s.form = "full"     -> Delim \o Block(s) \o Delim \o s.body
      [] s.form = "oneDelim" -> Delim \o Block(s) \o s.body
      [] s.form = "noDelim"  -> Block(s) \o s.body

Absent == Field(FALSE, <<>>)

\* sequences over S of length at most n
RECURSIVE SeqsUpTo(_, _)
SeqsUpTo(S, n) ==
    IF n = 0 THEN {<<>>}
    ELSE LET shorter == SeqsUpTo(S, n - 1)
         IN  shorter \cup {Append(q, e) : q \in shorter, e \in S}

\* title: absent, null, a string, a string with a character the template
\* escapes, an integer
Titles ==
    {Absent, Field(TRUE, <<>>), Field(TRUE, <<"a">>), Field(TRUE, <<"<">>),
     Field(TRUE, <<"1">>)}

\* the tokens of a tags field: empty (two blanks in a row), a name, an empty
\* name with a version, a name with two versions, a name with an empty version
Tokens ==
    {<<>>, <<"a">>, <<":", "b">>, <<"a", ":", "b", ",", "c">>, <<"a", ":">>}

TagsFields ==
    {Absent} \cup {Field(TRUE, ts) : ts \in SeqsUpTo(Tokens, MaxTags)}

Privates ==
    {Absent, Field(TRUE, TrueText), Field(TRUE, FalseText), Field(TRUE, <<"1">>)}

Bodies == StringsUpTo({"a", "<"}, MaxBodyLen)

Malformed ==
    {Source(f, Field(TRUE, <<"a">>), Absent, Absent, <<"a">>) :
        f \in {"oneDelim", "noDelim"}}

Sources ==
    {Source("full", ti, tg, pr, bd) :
        ti \in Titles, tg \in TagsFields, pr \in Privates, bd \in Bodies}
    \cup Malformed

\* the documents of the runs of main
MainSources ==
    {Source("full", ti, tg, pr, bd) :
        ti \in {Absent, Field(TRUE, <<"a">>), Field(TRUE, <<"<">>)},
        tg \in {Absent, Field(TRUE, <<<<"a">>>>),
                Field(TRUE, <<<<"a", ":", "b", ",", "c">>, <<"a">>>>)},
        pr \in {Absent, Field(TRUE, FalseText)},
        bd \in Bodies}
    \cup Malformed

NoSource == Source("noDelim", Absent, Absent, Absent, <<>>)

\* the Taggings handed to the tag codec: any name, versions nil, empty or not
Names == StringsUpTo({"a", ":", ","}, MaxLen)

VersionStrings == StringsUpTo({"b", ":", ","}, MaxVerLen)

Taggings ==
    {Tagging(n, NilSlice) : n \in Names}
    \cup {Tagging(n, Slice(vs)) :
             n \in Names, vs \in SeqsUpTo(VersionStrings, MaxVersions)}

----------------------------------------------------------------------------
(* The network and the remote service *)

Statuses == {201, 401, 500}

\* the item as the service returns it: an id and timestamps are assigned
Created(item) ==
    [item EXCEPT !.ID = <<"1">>, !.RenderedBody = HTMLEscape(item.Body),
                 !.CreatedAt = 1, !.UpdatedAt = 1]

\* the bodies a response to the request for item may carry: nothing, bytes
\* that are not JSON, a JSON array, a JSON object without any key of an item
\* (an error message), the created item
ResponseBodies(item) ==
    {NoBytes,
     Bytes("garbage", {}, ZeroItem),
     Bytes("array", {}, ZeroItem),
     Bytes("object", {}, ZeroItem),
     Bytes("object", ItemKeys, Created(item))}

NetOutcomes(item) ==
    {NetOutcome(FALSE, 0, FALSE, NoBytes)}
    \cup {NetOutcome(TRUE, s, FALSE, NoBytes) : s \in Statuses}
    \cup {NetOutcome(TRUE, s, TRUE, b) : s \in Statuses, b \in ResponseBodies(item)}

----------------------------------------------------------------------------
(* Initial values *)

NoParse == Parsed(ZeroItem)

\* the results (r, err) of PostNewItem
Returned(item, err) == [item |-> item, err |-> err]

NoPost == Returned(ZeroItem, "")

NoText == [err |-> FALSE, text |-> <<>>]

NoTagging == Tagging(<<>>, NilSlice)

File(err, data) == [err |-> err, data |-> data]

Stage(name, ok) == [name |-> name, ok |-> ok]

FlowInit ==
    /\ buf = <<>>
    /\ it = NoParse
    /\ net = NoNet
    /\ netCalls = 0
    /\ req = NoRequest
    /\ post = NoPost
    /\ st = NoText
    /\ it2 = NoParse
    /\ stderr = <<>>
    /\ stdout = <<>>
    /\ stages = <<>>

CodecInit ==
    /\ enc = <<>>
    /\ dec = NoTagging
    /\ wire = <<>>

----------------------------------------------------------------------------
(* main: one action per statement *)

\* a main that goes on with what it has when a statement fails
Next_pc_Continue(ok, next) == next

\* where main goes after a statement: on, or out through panic(err)
Next_pc(ok, next) == IF ok THEN next ELSE "panicked"

\* buf, err := ioutil.ReadFile("_posts/sample.md")
ReadFile ==
    /\ pc = "main"
    /\ buf' = IF fs.err THEN <<>> ELSE fs.data
    /\ stages' = Append(stages, Stage("read", ~fs.err))
    /\ pc' = Next_pc(~fs.err, "read")
    /\ UNCHANGED <<dryRun, src, fs, it, net, netCalls, req, post, st, it2,
                   stderr, stdout>>
    /\ UNCHANGED codecVars

\* it := ParseMarkdown(string(buf))
Parse ==
    /\ pc = "read"
    /\ it' = ParseMarkdown(buf)
    /\ stages' = Append(stages, Stage("parse", it'.panic = ""))
    /\ pc' = Next_pc(it'.panic = "", "parsed")
    /\ UNCHANGED <<dryRun, src, fs, buf, net, netCalls, req, post, st, it2,
                   stderr, stdout>>
    /\ UNCHANGED codecVars

\* r, err := PostNewItem(*it)
Post ==
    /\ pc = "parsed"
    /\ \E n \in NetOutcomes(it.item) :
          LET res == PostNewItem(it.item, dryRun, n)
          IN  /\ post' = Returned(res.item, res.err)
              /\ req' = res.req
              /\ net' = IF res.sent THEN n ELSE net
              /\ netCalls' = IF res.sent THEN netCalls + 1 ELSE netCalls
              /\ stdout' = stdout \o res.dump
              /\ stages' = Append(stages, Stage("post", res.err = ""))
              /\ pc' = Next_pc(res.err = "", "posted")
    /\ UNCHANGED <<dryRun, src, fs, buf, it, st, it2, stderr>>
    /\ UNCHANGED codecVars

\* st, err := r.ToMarkdown()
Render ==
    /\ pc = "posted"
    /\ st' = ToMarkdown(post.item)
    /\ stages' = Append(stages, Stage("render", ~st'.err))
    /\ pc' = Next_pc(~st'.err, "rendered")
    /\ UNCHANGED <<dryRun, src, fs, buf, it, net, netCalls, req, post, it2,
                   stderr, stdout>>
    /\ UNCHANGED codecVars

\* println(st)
Println ==
    /\ pc = "rendered"
    /\ stderr' = Append(stderr, st.text)
    /\ stages' = Append(stages, Stage("print", TRUE))
    /\ pc' = "done"
    /\ UNCHANGED <<dryRun, src, fs, buf, it, net, netCalls, req, post, st, it2,
                   stdout>>
    /\ UNCHANGED codecVars

\* the state before main runs: the file is unreadable or holds a document,
\* the dry-run variable is off (its initial value) or has been switched on
Init ==
    /\ pc = "main"
    /\ dryRun \in BOOLEAN
    /\ \/ src \in MainSources /\ fs = File(FALSE, Document(src))
       \/ src = NoSource /\ fs = File(TRUE, <<>>)
    /\ FlowInit
    /\ t = NoTagging
    /\ CodecInit

Next == ReadFile \/ Parse \/ Post \/ Render \/ Println

Spec == Init /\ [][Next]_vars

----------------------------------------------------------------------------
(* ParseMarkdown and ToMarkdown applied to a document *)

\* ParseMarkdown(x)
ApplyParse ==
    /\ pc = "document"
    /\ it' = ParseMarkdown(fs.data)
    /\ pc' = IF it'.panic = "" THEN "parsed" ELSE "panicked"
    /\ UNCHANGED <<dryRun, src, fs, buf, net, netCalls, req, post, st, it2,
                   stderr, stdout, stages>>
    /\ UNCHANGED codecVars

\* ParseMarkdown(x).ToMarkdown()
ApplyRender ==
    /\ pc = "parsed"
    /\ st' = ToMarkdown(it.item)
    /\ pc' = "rendered"
    /\ UNCHANGED <<dryRun, src, fs, buf, it, net, netCalls, req, post, it2,
                   stderr, stdout, stages>>
    /\ UNCHANGED codecVars

\* ParseMarkdown(ParseMarkdown(x).ToMarkdown())
ApplyReparse ==
    /\ pc = "rendered"
    /\ it2' = ParseMarkdown(st.text)
    /\ pc' = "reparsed"
    /\ UNCHANGED <<dryRun, src, fs, buf, it, net, netCalls, req, post, st,
                   stderr, stdout, stages>>
    /\ UNCHANGED codecVars

InitParse ==
    /\ pc = "document"
    /\ dryRun = FALSE
    /\ src \in Sources
    /\ fs = File(FALSE, Document(src))
    /\ FlowInit
    /\ t = NoTagging
    /\ CodecInit

NextParse == ApplyParse \/ ApplyRender \/ ApplyReparse

SpecParse == InitParse /\ [][NextParse]_vars

----------------------------------------------------------------------------
(* The tag codec applied to a Tagging *)

\* t.String()
ApplyString ==
    /\ pc = "tagging"
    /\ enc' = String(t)
    /\ pc' = "encoded"
    /\ UNCHANGED <<t, dec, wire>>
    /\ UNCHANGED flowVars

\* ParseTagging(t.String())
ApplyParseTagging ==
    /\ pc = "encoded"
    /\ dec' = ParseTagging(enc)
    /\ pc' = "decoded"
    /\ UNCHANGED <<t, enc, wire>>
    /\ UNCHANGED flowVars

\* t.MarshalJSON()
ApplyMarshalJSON ==
    /\ pc = "decoded"
    /\ wire' = MarshalJSON(t)
    /\ pc' = "marshalled"
    /\ UNCHANGED <<t, enc, dec>>
    /\ UNCHANGED flowVars

InitCodec ==
    /\ pc = "tagging"
    /\ dryRun = FALSE
    /\ src = NoSource
    /\ fs = File(TRUE, <<>>)
    /\ FlowInit
    /\ t \in Taggings
    /\ CodecInit

NextCodec == ApplyString \/ ApplyParseTagging \/ ApplyMarshalJSON

SpecCodec == InitCodec /\ [][NextCodec]_vars

----------------------------------------------------------------------------
(* Properties *)

Contains(s, c) == \E i \in 1..Len(s) : s[i] = c

\* main has executed its statement number n
Executed(n) == Len(stages) >= n

\* C1: with the dry-run variable on, PostNewItem makes no network call and
\* returns without error, having built a POST request to /api/v2/items whose
\* body is the four-field JSON payload of the item.
C1_DryRunCreate ==
    (dryRun /\ Executed(3)) =>
        /\ netCalls = 0
        /\ req.Method = "POST"
        /\ req.URL = "https://qiita.com/api/v2/items"
        /\ req.Body = Payload(it.item)
        /\ post.err = ""

C3_RoundTrip ==
    pc = "reparsed" =>
        /\ it2.panic = ""
        /\ Local(it2.item) = Local(it.item)

\* C4: on a document without a title key, or with a title that is not a
\* string, ParseMarkdown fails with an error: it neither returns an item nor
\* crashes.
C4_TitleError ==
    (/\ pc # "document"
     /\ src.form = "full"
     /\ (~src.title.present \/ src.title.text \in {<<>>, <<"1">>})) =>
        /\ it.panic = ""
        /\ pc # "parsed"

StageOrder == <<"read", "parse", "post", "render", "print">>

\* C5: main's stages run in the order read, parse, create, render, print;
\* the first stage that fails ends the run; at most one HTTP request is
\* made, and only after a successful parse; nothing is printed unless every
\* stage succeeded.
C5_Flow ==
    /\ Len(stages) <= Len(StageOrder)
    /\ \A i \in 1..Len(stages) : stages[i].name = StageOrder[i]
    /\ \A i \in 1..(Len(stages) - 1) : stages[i].ok
    /\ (\E i \in 1..Len(stages) : ~stages[i].ok) => pc = "panicked"
    /\ netCalls <= 1
    /\ netCalls = 1 => (Executed(3) /\ stages[1].ok /\ stages[2].ok)
    /\ stderr # <<>> =>
           /\ Len(stages) = Len(StageOrder)
           /\ \A i \in 1..Len(stages) : stages[i].ok
           /\ stderr = <<st.text>>

C5_Witness ==
    /\ pc = "panicked"
    /\ Len(stages) = 3
    /\ netCalls = 1
    /\ stderr = <<>>

\* the text of a list of strings that need no escaping
RECURSIVE Quoted(_)
Quoted(ss) ==
    IF ss = <<>> THEN <<>>
    ELSE <<"\"">> \o Head(ss) \o <<"\"">>
         \o (IF Len(ss) > 1 THEN <<",">> ELSE <<>>) \o Quoted(Tail(ss))

Fields(s) == SelectSeq(Split(s, <<" ">>), LAMBDA tok : tok # <<>>)

\* C7: when the tags field is a string, ParseMarkdown yields one Tagging per
\* whitespace-delimited token, in order, each the ParseTagging of its token;
\* when the field is absent or null there are no tags.
C7_TagPerToken ==
    (pc # "document" /\ it.panic = "") =>
        LET text == TagsText(src.tags.text)
        IN  IF src.tags.present /\ TrimSpace(text) # <<>>
            THEN it.item.Tags.elems
                     = [i \in 1..Len(Fields(text)) |-> ParseTagging(Fields(text)[i])]
            ELSE Len(it.item.Tags.elems) = 0

\* C8: ParseMarkdown on a well-formed document without a private key yields
\* Private = true, and with a private key of boolean b yields Private = b.
C8_Private ==
    (pc # "document" /\ it.panic = "") =>
        /\ ~src.private.present => it.item.Private = TRUE
        /\ (src.private.present /\ src.private.text = TrueText)
               => it.item.Private = TRUE
        /\ (src.private.present /\ src.private.text = FalseText)
               => it.item.Private = FALSE

C8_Witness ==
    /\ pc = "parsed"
    /\ src.tags.present
    /\ ~src.private.present
    /\ it.item.Private = TRUE

\* C9: the text ToMarkdown returns ends with the closing delimiter line
\* followed by the item's body character for character, and its title line
\* carries the title unchanged.
C9_Verbatim ==
    pc \in {"rendered", "reparsed"} =>
        LET body  == it.item.Body
            title == it.item.Title
            n     == Len(st.text)
            head  == Delim \o TitleKey \o <<":", " ">> \o title \o <<"\n">>
        IN  /\ n >= Len(head) + Len(Delim) + Len(body)
            /\ SubSeq(st.text, 1, Len(head)) = head
            /\ SubSeq(st.text, n - Len(body) + 1, n) = body
            /\ SubSeq(st.text, n - Len(body) - Len(Delim) + 1, n - Len(body)) = Delim

\* C10: without dry run, the outcome of PostNewItem does not depend on the
\* status of the response: it is an item exactly when the transport
\* succeeded, the body was read and the body is a JSON object, whatever the
\* status, and an error otherwise.
C10_StatusBlind ==
    (~dryRun /\ Executed(3) /\ netCalls = 1) =>
        /\ post.err = "" <=>
               (net.transport /\ net.read /\ net.body.kind = "object")
        /\ post.err = "" =>
               (pc # "panicked" /\ post.item = Unmarshal(net.body).item)
        /\ post.err # "" => pc = "panicked"

C10_Witness ==
    /\ pc = "posted"
    /\ ~dryRun
    /\ net.status = 500
    /\ post.err = ""

====
